---------------------------- MODULE Spec2Model ----------------------------
(***************************************************************************)
(* A model of the in-memory core of leveldb: the SkipList template         *)
(* (src/include/leveldb/slice.h, second half), the Arena allocator          *)
(* (src/unnamed/part_000 = util/arena.h, src/unnamed/part_001 =             *)
(* util/arena.cc) and the varint codec (src/util/coding.cc).                *)
(*                                                                         *)
(* Eight specifications share the variables below:                         *)
(*   Spec       - one thread: whole Insert / Contains / Iterator calls.     *)
(*   SpecConc   - one writer running Insert access by access, and readers   *)
(*                scanning the level-0 chain load by load.                  *)
(*   SpecSearch - the same writer, and one reader running                   *)
(*                FindGreaterOrEqual load by load.                          *)
(*   SpecInsert - the stepwise writer alone.                                *)
(*   SpecScan   - the same writer, and one scanning reader with the keys    *)
(*                present when its scan began.                              *)
(*   SpecLive   - the same writer, and one reader running its three         *)
(*                searches load by load, both scheduled fairly.             *)
(*   SpecArena  - sequences of Allocate / AllocateAligned calls.            *)
(*   SpecCoding - a byte string built by appends and Put calls, then        *)
(*                decoded by the Get calls.                                 *)
(* Each specification leaves the variables of the others at their initial  *)
(* values.                                                                  *)
(*                                                                         *)
(* Memory is sequentially consistent here: every load and store is one     *)
(* atomic step.  Memory that was never written holds the value Unwritten;  *)
(* a load of it yields an arbitrary pointer (LoadValues).                  *)
(***************************************************************************)
EXTENDS Integers, Sequences, FiniteSets, TLC

\* ------------------------------------------------------------------ bounds
\* Number of keys the writer is given (keys 1..MaxKeys), which is also the
\* number of nodes the arena ever holds.
MaxKeys == 3
\* Largest height RandomHeight is let to draw (the code allows kMaxHeight).
MaxDrawnHeight == 2

\* Number of Allocate / AllocateAligned calls made on the arena.
MaxAllocs == 3

\* Longest string the caller builds byte by byte (a varint64 takes up to 10
\* bytes; the 11th is the one that must not be read), and the number of its
\* bytes that have the high bit clear.
MaxBytes == 11
MaxLowBytes == 2

\* --------------------------------------------------------------- constants
kMaxHeight == 12
kBlockSize == 4096
\* AllocateAligned's align: (sizeof(void*) > 8) ? sizeof(void*) : 8, with
\* 8-byte pointers.
kAlign == 8
\* sizeof(char*), which AllocateNewBlock adds to memory_usage_ per block.
kPointerSize == 8

\* Pointers.  Nodes are numbered in the order NewNode allocates them.
head_ == 0
nullptr == -1
\* What a word of arena memory holds before anything is stored in it.
Unwritten == -2

Nodes == 1..MaxKeys
AllNodes == {head_} \cup Nodes
Ptr == {nullptr} \cup AllNodes
Levels == 0..(kMaxHeight - 1)
Keys == 1..MaxKeys
\* Targets of Seek / Contains: the keys, one value below and one above.
Targets == 0..(MaxKeys + 1)
\* The reader threads.
Readers == {"r1", "r2"}

VARIABLES
  \* ---- SkipList memory
  key,            \* key[n]: Node::key of node n; 0 = not constructed (head's key is 0)
  next_,          \* next_[n][i]: Node::next_[i] of node n
  nheight,        \* nheight[n]: the height node n was allocated with (0: not allocated)
  max_height_,    \* SkipList::max_height_
  inserted,       \* ghost: the keys Insert has been called with
  \* ---- one Iterator and its history (Spec)
  it_node,        \* Iterator::node_
  it_ub,          \* a REQUIRES: Valid() of the iterator was violated
  it_hist,        \* ghost: the last iterator call, and the one before for a Next, Prev pair
  trail,          \* ghost: keys visited since SeekToFirst / SeekToLast by Next / Prev alone
  c_last,         \* ghost: the last Contains call and its result, until the next call
  \* ---- the writer thread inside Insert (SpecConc)
  w_pc,           \* where the writer is: "idle", "find", "height", "newnode", "init", "publish"
  w_key,          \* Insert's argument key
  w_fx,           \* FindGreaterOrEqual's local x
  w_level,        \* FindGreaterOrEqual's local level
  w_prev,         \* Insert's local array prev[kMaxHeight]
  w_height,       \* Insert's local height
  w_x,            \* Insert's local x after NewNode
  w_i,            \* Insert's loop index i
  w_done,         \* ghost: the keys whose Insert has returned
  \* ---- the reader threads, each scanning with its own Iterator (SpecConc)
  r_pc,           \* r_pc[r]: "idle" before the first scan, "scan" from SeekToFirst on
  r_node,         \* r_node[r]: the reader's Iterator::node_
  r_seen,         \* ghost: r_seen[r]: the keys the current scan has read, in order
  r_after,        \* ghost: r_after[r]: the scan began after the writer's last Insert returned
  \* ---- Arena (SpecArena); addresses are byte numbers, 0 is the null pointer
  alloc_ptr_,     \* Arena::alloc_ptr_
  alloc_bytes_remaining_,   \* Arena::alloc_bytes_remaining_
  blocks_,        \* Arena::blocks_: [base, size] of every block, oldest first
  memory_usage_,  \* Arena::memory_usage_
  a_regions,      \* ghost: [addr, size] of every region returned, oldest first
  a_last,         \* ghost: the last call: op, bytes, and the arena before it
  \* ---- coding (SpecCoding); positions are byte offsets into dst
  dst,            \* the std::string written by Put... and read through input
  input,          \* the caller's Slice over dst: [data, size]; NoSlice before it is made
  d_put,          \* ghost: the Put... call that wrote the head of dst: op, argument, bytes written
  d_last,         \* ghost: the last Get... call: op, input before, what it returned and wrote
  \* ---- a reader thread inside Contains or Seek (SpecSearch)
  s_pc,           \* where the reader is: "idle", "find", "findlt", "findlast", "done"
  s_h,            \* the height GetMaxHeight() returned to FindGreaterOrEqual
  s_key,          \* the call's argument key
  s_x,            \* FindGreaterOrEqual's local x
  s_level,        \* FindGreaterOrEqual's local level
  s_node,         \* the node FindGreaterOrEqual returned
  s_ub,           \* the reader has loaded a word that was never written
  s_before,       \* ghost: the Insert of s_key had returned when the call began
  \* ---- one reader scanning beside the writer (SpecScan)
  scan_base       \* ghost: the keys whose Insert had returned when the scan began

skipVars == <<key, next_, nheight, max_height_, inserted>>
iterVars == <<it_node, it_ub, it_hist, trail, c_last>>
writerVars == <<w_pc, w_key, w_fx, w_level, w_prev, w_height, w_x, w_i, w_done>>
readerVars == <<r_pc, r_node, r_seen, r_after>>
arenaVars == <<alloc_ptr_, alloc_bytes_remaining_, blocks_, memory_usage_,
               a_regions, a_last>>
codingVars == <<dst, input, d_put, d_last>>
searchVars == <<s_pc, s_h, s_key, s_x, s_level, s_node, s_ub, s_before>>
scanVars == <<scan_base>>
vars == <<skipVars, iterVars, writerVars, readerVars, arenaVars, codingVars,
          searchVars, scanVars>>


\* ------------------------------------------------------------- SkipList
Min(a, b) == IF a < b THEN a ELSE b

\* Comparator on integer keys: negative, zero or positive.
compare_(a, b) == a - b

Equal(a, b) == compare_(a, b) = 0

\* What a load of a memory word can return: the value stored, or anything at
\* all when nothing was ever stored there.
LoadValues(v) == IF v = Unwritten THEN Ptr ELSE {v}

\* Node::Next(n) / Node::NoBarrier_Next(n): the word read.
NodeNext(mem, x, n) == mem[x][n]

NoBarrier_Next(mem, x, n) == mem[x][n]

\* Node::SetNext(n, x) (release store) and Node::NoBarrier_SetNext(n, x).
SetNext(mem, node, n, x) == [mem EXCEPT ![node][n] = x]

NoBarrier_SetNext(mem, node, n, x) == [mem EXCEPT ![node][n] = x]

GetMaxHeight == max_height_

\* The heights RandomHeight can return: 1 plus the number of consecutive draws
\* with rnd_.Next() % kBranching = 0, stopped at kMaxHeight.
RandomHeight == 1..Min(kMaxHeight, MaxDrawnHeight)

\* Mutant of KeyIsAfterNode: the comparison turned round.
KeyIsAfterNodeReversed(k, n) == (n # nullptr) /\ (compare_(key[n], k) > 0)

\* Mutant of KeyIsAfterNode: a node with an equal key counts as before the key.
KeyIsAfterNodeOrEqual(k, n) == (n # nullptr) /\ (compare_(key[n], k) <= 0)

\* null n is considered infinite
KeyIsAfterNode(k, n) == (n # nullptr) /\ (compare_(key[n], k) < 0)

\* Mutant of FindGreaterOrEqualStep: the level is not lowered where the loop
\* switches to the next list.
FindGreaterOrEqualStepNoDescend(k, x, level, prev, next) ==
  IF KeyIsAfterNode(k, next)
    THEN [done |-> FALSE, x |-> next, level |-> level, prev |-> prev, node |-> next]
    ELSE LET filled == [prev EXCEPT ![level] = x] IN
         IF level = 0
           THEN [done |-> TRUE, x |-> x, level |-> level, prev |-> filled, node |-> next]
           ELSE [done |-> FALSE, x |-> x, level |-> level, prev |-> filled,
                 node |-> next]

\* One turn of the loop of FindGreaterOrEqual, from node x at level `level`,
\* `next` being the pointer x->Next(level) loaded and prev the caller's array
\* as filled so far (a caller that passes prev = nullptr never reads it).
FindGreaterOrEqualStep(k, x, level, prev, next) ==
  IF KeyIsAfterNode(k, next)
    THEN [done |-> FALSE, x |-> next, level |-> level, prev |-> prev, node |-> next]
    ELSE LET filled == [prev EXCEPT ![level] = x] IN
         IF level = 0
           THEN [done |-> TRUE, x |-> x, level |-> level, prev |-> filled, node |-> next]
           ELSE [done |-> FALSE, x |-> x, level |-> level - 1, prev |-> filled,
                 node |-> next]

\* The loop run to its return.  A load of an unwritten word ends the search
\* with node = Unwritten (the caller then holds a garbage pointer).
RECURSIVE FindGreaterOrEqualLoop(_, _, _, _)
FindGreaterOrEqualLoop(k, x, level, prev) ==
  LET next == NodeNext(next_, x, level)
      turn == FindGreaterOrEqualStep(k, x, level, prev, next)
  IN IF next = Unwritten THEN [node |-> Unwritten, prev |-> prev]
     ELSE IF turn.done THEN [node |-> turn.node, prev |-> turn.prev]
     ELSE FindGreaterOrEqualLoop(k, turn.x, turn.level, turn.prev)

\* FindGreaterOrEqual(key, prev) started with the height h that GetMaxHeight
\* returned; prev starts as an uninitialized local array.
FindGreaterOrEqual(k, h) ==
  FindGreaterOrEqualLoop(k, head_, h - 1, [i \in Levels |-> Unwritten])

\* Mutant of FindLessThanLoop: stops only at a key greater than k, not at k.
RECURSIVE FindLessThanLoopInclusive(_, _, _)
FindLessThanLoopInclusive(k, x, level) ==
  LET next == NodeNext(next_, x, level) IN
  IF next = Unwritten THEN Unwritten
  ELSE IF next = nullptr \/ compare_(key[next], k) > 0
       THEN IF level = 0 THEN x ELSE FindLessThanLoopInclusive(k, x, level - 1)
       ELSE FindLessThanLoopInclusive(k, next, level)

RECURSIVE FindLessThanLoop(_, _, _)
FindLessThanLoop(k, x, level) ==
  LET next == NodeNext(next_, x, level) IN
  IF next = Unwritten THEN Unwritten
  ELSE IF next = nullptr \/ compare_(key[next], k) >= 0
       THEN IF level = 0 THEN x ELSE FindLessThanLoop(k, x, level - 1)
       ELSE FindLessThanLoop(k, next, level)

FindLessThan(k, h) == FindLessThanLoop(k, head_, h - 1)

\* Mutant of FindLastLoop: at a null pointer it returns x without going down.
RECURSIVE FindLastLoopNoDescend(_, _)
FindLastLoopNoDescend(x, level) ==
  LET next == NodeNext(next_, x, level) IN
  IF next = Unwritten THEN Unwritten
  ELSE IF next = nullptr THEN x
       ELSE FindLastLoopNoDescend(next, level)

RECURSIVE FindLastLoop(_, _)
FindLastLoop(x, level) ==
  LET next == NodeNext(next_, x, level) IN
  IF next = Unwritten THEN Unwritten
  ELSE IF next = nullptr
       THEN IF level = 0 THEN x ELSE FindLastLoop(x, level - 1)
       ELSE FindLastLoop(next, level)

FindLast(h) == FindLastLoop(head_, h - 1)

\* One turn of the loop of FindLessThan (lines 492-508), from node x at level
\* `level`, `next` being the pointer x->Next(level) loaded.
FindLessThanStep(k, x, level, next) ==
  IF next = nullptr \/ compare_(key[next], k) >= 0
    THEN IF level = 0
           THEN [done |-> TRUE, x |-> x, level |-> level]
           ELSE [done |-> FALSE, x |-> x, level |-> level - 1]
    ELSE [done |-> FALSE, x |-> next, level |-> level]

\* One turn of the loop of FindLast (lines 518-530).
FindLastStep(x, level, next) ==
  IF next = nullptr
    THEN IF level = 0
           THEN [done |-> TRUE, x |-> x, level |-> level]
           ELSE [done |-> FALSE, x |-> x, level |-> level - 1]
    ELSE [done |-> FALSE, x |-> next, level |-> level]

\* The node NewNode returns: the next free one of the arena.
NewNode == Cardinality({n \in Nodes : nheight[n] > 0}) + 1

\* Insert, lines 571-575: prev[i] = head_ for the levels the list gains.
RaisePrev(prev, height, mh) ==
  [i \in Levels |-> IF height > mh /\ i >= mh /\ i < height THEN head_ ELSE prev[i]]

\* Mutant of RaiseMaxHeight: the height drawn is stored whatever it is.
RaiseMaxHeightAlways(height, mh) == height

\* Insert, lines 571-586: the new max_height_.
RaiseMaxHeight(height, mh) == IF height > mh THEN height ELSE mh

\* Mutant of InitLevel: the new node's pointer is copied from head_, not prev[i].
InitLevelFromHead(mem, x, prev, i) ==
  NoBarrier_SetNext(mem, x, i, NoBarrier_Next(mem, head_, i))

\* Mutant of InitLevel: the new node's pointer is set to nullptr.
InitLevelNull(mem, x, prev, i) == NoBarrier_SetNext(mem, x, i, nullptr)

\* Mutant of InitLevel: the new node's pointer is not set before it is published.
InitLevelSkipped(mem, x, prev, i) == mem

\* Mutant of InitLevel: the store always goes to level 0 of the new node.
InitLevelAtLevelZero(mem, x, prev, i) ==
  NoBarrier_SetNext(mem, x, 0, NoBarrier_Next(mem, prev[i], i))

\* Insert, line 601: x->NoBarrier_SetNext(i, prev[i]->NoBarrier_Next(i)).
InitLevel(mem, x, prev, i) ==
  NoBarrier_SetNext(mem, x, i, NoBarrier_Next(mem, prev[i], i))

\* Mutant of PublishLevel: the store goes one level too high.
PublishLevelOneUp(mem, x, prev, i) == SetNext(mem, prev[i], i + 1, x)

\* Mutant of PublishLevel: the store goes to level 0 of prev[i].
PublishLevelAtLevelZero(mem, x, prev, i) == SetNext(mem, prev[i], 0, x)

\* Mutant of PublishLevel: the store goes to head_, not to prev[i].
PublishLevelAtHead(mem, x, prev, i) == SetNext(mem, head_, i, x)

\* Insert, line 612: prev[i]->SetNext(i, x).
PublishLevel(mem, x, prev, i) == SetNext(mem, prev[i], i, x)

\* Insert, lines 589-613: the loop from level i to height - 1.
RECURSIVE LinkLevels(_, _, _, _, _)
LinkLevels(mem, x, prev, i, height) ==
  IF i >= height THEN mem
  ELSE LinkLevels(PublishLevel(InitLevel(mem, x, prev, i), x, prev, i),
                  x, prev, i + 1, height)

NoTrail == [dir |-> "none", keys |-> <<>>]
NoCall == [k |-> -1, result |-> FALSE]

SkipListInit ==
  /\ key = [n \in AllNodes |-> 0]
  /\ next_ = [n \in AllNodes |->
                [i \in Levels |-> IF n = head_ THEN nullptr ELSE Unwritten]]
  /\ nheight = [n \in AllNodes |-> IF n = head_ THEN kMaxHeight ELSE 0]
  /\ max_height_ = 1
  /\ inserted = {}

IterInit ==
  /\ it_node = nullptr
  /\ it_ub = FALSE
  /\ it_hist = <<>>
  /\ trail = NoTrail
  /\ c_last = NoCall

WriterInit ==
  /\ w_pc = "idle"
  /\ w_key = 0
  /\ w_fx = head_
  /\ w_level = 0
  /\ w_prev = [i \in Levels |-> Unwritten]
  /\ w_height = 0
  /\ w_x = nullptr
  /\ w_i = 0
  /\ w_done = {}

ReaderInit ==
  /\ r_pc = [r \in Readers |-> "idle"]
  /\ r_node = [r \in Readers |-> nullptr]
  /\ r_seen = [r \in Readers |-> <<>>]
  /\ r_after = [r \in Readers |-> FALSE]

\* A whole Insert(k) call that drew `height`; REQUIRES: k is not in the list.
Insert(k, height) ==
  LET found == FindGreaterOrEqual(k, GetMaxHeight)
      prev == RaisePrev(found.prev, height, GetMaxHeight)
      x == NewNode
  IN /\ k \notin inserted
     /\ x \in Nodes
     /\ inserted' = inserted \cup {k}
     /\ max_height_' = RaiseMaxHeight(height, GetMaxHeight)
     /\ key' = [key EXCEPT ![x] = k]
     /\ nheight' = [nheight EXCEPT ![x] = height]
     /\ next_' = LinkLevels(next_, x, prev, 0, height)
     /\ it_hist' = <<>>
     /\ trail' = NoTrail
     /\ c_last' = NoCall
     /\ UNCHANGED <<it_node, it_ub, writerVars, readerVars, arenaVars, codingVars, searchVars, scanVars>>

InsertCall == \E k \in Keys, height \in RandomHeight : Insert(k, height)

\* Mutant of Contains: any node found counts, equal key or not.
ContainsAnyNode(k) ==
  LET x == FindGreaterOrEqual(k, GetMaxHeight).node IN
  x # Unwritten /\ x # nullptr

\* Contains(k): the value returned.
Contains(k) ==
  LET x == FindGreaterOrEqual(k, GetMaxHeight).node IN
  x # Unwritten /\ x # nullptr /\ Equal(k, key[x])

ContainsCall ==
  \E k \in Targets :
    /\ c_last' = [k |-> k, result |-> Contains(k)]
    /\ it_hist' = <<>>
    /\ trail' = NoTrail
    /\ UNCHANGED <<skipVars, it_node, it_ub, writerVars, readerVars, arenaVars, codingVars, searchVars, scanVars>>

\* -------------------------------------------------------------- Iterator
Valid == it_node # nullptr

\* The history after a call `op` that moved the cursor from it_node to `to`:
\* the call, preceded by the call before it when the two are Next, Prev.
Logged(op, arg, to) ==
  LET call == [op |-> op, arg |-> arg, from |-> it_node, to |-> to]
      n == Len(it_hist)
  IN IF op = "Prev" /\ n > 0 /\ it_hist[n].op = "Next"
       THEN <<it_hist[n], call>>
       ELSE <<call>>

\* The trail after a call of op that moved the cursor to `to`: SeekToFirst and
\* SeekToLast start one, Next and Prev extend one of their own direction, and
\* anything else ends it.
TrailAfter(op, to) ==
  LET visited == IF to = nullptr THEN <<>> ELSE <<key[to]>> IN
  CASE op = "SeekToFirst" -> [dir |-> "fwd", keys |-> visited]
    [] op = "SeekToLast" -> [dir |-> "bwd", keys |-> visited]
    [] op = "Next" /\ trail.dir = "fwd" -> [trail EXCEPT !.keys = @ \o visited]
    [] op = "Prev" /\ trail.dir = "bwd" -> [trail EXCEPT !.keys = @ \o visited]
    [] OTHER -> NoTrail

\* An iterator call that leaves the cursor at a pointer loaded as v.
MoveTo(op, arg, v) ==
  \E to \in LoadValues(v) :
    /\ it_node' = to
    /\ it_ub' = (v = Unwritten)
    /\ it_hist' = Logged(op, arg, to)
    /\ trail' = IF v = Unwritten THEN NoTrail ELSE TrailAfter(op, to)
    /\ c_last' = NoCall
    /\ UNCHANGED <<skipVars, writerVars, readerVars, arenaVars, codingVars, searchVars, scanVars>>

\* Iterator(list): a new iterator, not valid.
NewIterator ==
  /\ it_node' = nullptr
  /\ it_ub' = FALSE
  /\ it_hist' = <<>>
  /\ trail' = NoTrail
  /\ c_last' = NoCall
  /\ UNCHANGED <<skipVars, writerVars, readerVars, arenaVars, codingVars, searchVars, scanVars>>

\* A call made although Valid() does not hold: the assert fails, or a null
\* pointer is dereferenced; the cursor is left anywhere.
InvalidCall(op) ==
  /\ ~Valid
  /\ it_ub' = TRUE
  /\ it_node' \in Ptr
  /\ it_hist' = Logged(op, -1, it_node')
  /\ trail' = NoTrail
  /\ c_last' = NoCall
  /\ UNCHANGED <<skipVars, writerVars, readerVars, arenaVars, codingVars, searchVars, scanVars>>

IterNext ==
  /\ ~it_ub
  /\ \/ Valid /\ MoveTo("Next", -1, NodeNext(next_, it_node, 0))
     \/ InvalidCall("Next")

\* Mutant of PrevTarget: head_ is not turned into nullptr.
PrevTargetKeepsHead == FindLessThan(key[it_node], GetMaxHeight)

\* Prev: node_ = FindLessThan(node_->key); head_ becomes nullptr.
PrevTarget ==
  LET n == FindLessThan(key[it_node], GetMaxHeight) IN
  IF n = head_ THEN nullptr ELSE n

IterPrev ==
  /\ ~it_ub
  /\ \/ Valid /\ MoveTo("Prev", -1, PrevTarget)
     \/ InvalidCall("Prev")

IterSeek ==
  /\ ~it_ub
  /\ \E target \in Targets :
       MoveTo("Seek", target, FindGreaterOrEqual(target, GetMaxHeight).node)

IterSeekToFirst ==
  /\ ~it_ub
  /\ MoveTo("SeekToFirst", -1, NodeNext(next_, head_, 0))

SeekToLastTarget ==
  LET n == FindLast(GetMaxHeight) IN
  IF n = head_ THEN nullptr ELSE n

IterSeekToLast ==
  /\ ~it_ub
  /\ MoveTo("SeekToLast", -1, SeekToLastTarget)

\* ------------------------------------------------------------------ Arena
\* The arena as a record, and the value a call returns in `result`.
ArenaNow ==
  [alloc_ptr_ |-> alloc_ptr_, alloc_bytes_remaining_ |-> alloc_bytes_remaining_,
   blocks_ |-> blocks_, memory_usage_ |-> memory_usage_, result |-> 0]

\* Sizes requested: small ones that leave alloc_ptr_ unaligned, kBlockSize / 4
\* and the sizes next to it, half a block, three quarters of a block (after
\* one byte it leaves one byte less than kBlockSize / 4), sizes that use up
\* most of a block (one of them exactly, after a byte and its padding), a
\* whole block, one above a block.
AllocSizes ==
  {1, kAlign, kBlockSize \div 4 - 1, kBlockSize \div 4, kBlockSize \div 4 + 1,
   kBlockSize \div 2,
   3 * (kBlockSize \div 4), kBlockSize - kAlign, kBlockSize - 6, kBlockSize,
   kBlockSize + 1}

BlockEnd(b) == b.base + b.size

\* The end of the highest block the host has handed out (the heap starts at
\* kBlockSize).
HeapTop(blocks) ==
  IF blocks = <<>> THEN kBlockSize
  ELSE CHOOSE t \in {BlockEnd(blocks[i]) : i \in 1..Len(blocks)} :
         \A i \in 1..Len(blocks) : BlockEnd(blocks[i]) <= t

AlignUp(addr) == ((addr + kAlign - 1) \div kAlign) * kAlign

\* new char[block_bytes]: the addresses the host may return, each aligned to
\* kAlign and above every block handed out so far, with or without a gap.
HostNew(blocks) == {AlignUp(HeapTop(blocks)) + gap : gap \in {0, 2 * kAlign}}

\* Mutant of AllocateNewBlock: memory_usage_ grows by block_bytes alone.
AllocateNewBlockNoPointer(a, block_bytes, base) ==
  [a EXCEPT !.blocks_ = Append(@, [base |-> base, size |-> block_bytes]),
            !.memory_usage_ = @ + block_bytes,
            !.result = base]

\* AllocateNewBlock(block_bytes), the host returning `base`.
AllocateNewBlock(a, block_bytes, base) ==
  [a EXCEPT !.blocks_ = Append(@, [base |-> base, size |-> block_bytes]),
            !.memory_usage_ = @ + block_bytes + kPointerSize,
            !.result = base]

\* Mutant of AllocateFallback: the threshold is half a block.
AllocateFallbackHalfBlock(a, bytes, base) ==
  IF bytes > kBlockSize \div 2
    THEN AllocateNewBlock(a, bytes, base)
    ELSE LET b == AllocateNewBlock(a, kBlockSize, base) IN
         [b EXCEPT !.alloc_ptr_ = b.result + bytes,
                   !.alloc_bytes_remaining_ = kBlockSize - bytes,
                   !.result = b.result]

\* Mutant of AllocateFallback: the small path forgets to take `bytes` off
\* alloc_bytes_remaining_.
AllocateFallbackKeepsRemaining(a, bytes, base) ==
  IF bytes > kBlockSize \div 4
    THEN AllocateNewBlock(a, bytes, base)
    ELSE LET b == AllocateNewBlock(a, kBlockSize, base) IN
         [b EXCEPT !.alloc_ptr_ = b.result + bytes,
                   !.alloc_bytes_remaining_ = kBlockSize,
                   !.result = b.result]

\* AllocateFallback(bytes).
AllocateFallback(a, bytes, base) ==
  IF bytes > kBlockSize \div 4
    THEN AllocateNewBlock(a, bytes, base)
    ELSE LET b == AllocateNewBlock(a, kBlockSize, base) IN
         [b EXCEPT !.alloc_ptr_ = b.result + bytes,
                   !.alloc_bytes_remaining_ = kBlockSize - bytes,
                   !.result = b.result]

\* Mutant of Allocate: the fast path does not advance alloc_ptr_.
AllocateNoAdvance(a, bytes, base) ==
  IF bytes <= a.alloc_bytes_remaining_
    THEN [a EXCEPT !.result = a.alloc_ptr_,
                   !.alloc_bytes_remaining_ = @ - bytes]
    ELSE AllocateFallback(a, bytes, base)

\* Allocate(bytes), bytes > 0.
Allocate(a, bytes, base) ==
  IF bytes <= a.alloc_bytes_remaining_
    THEN [a EXCEPT !.result = a.alloc_ptr_,
                   !.alloc_ptr_ = @ + bytes,
                   !.alloc_bytes_remaining_ = @ - bytes]
    ELSE AllocateFallback(a, bytes, base)

\* Mutant of AllocateAligned: slop is current_mod itself.
AllocateAlignedSlopIsMod(a, bytes, base) ==
  LET current_mod == a.alloc_ptr_ % kAlign
      slop == current_mod
      needed == bytes + slop
  IN IF needed <= a.alloc_bytes_remaining_
       THEN [a EXCEPT !.result = a.alloc_ptr_ + slop,
                      !.alloc_ptr_ = @ + needed,
                      !.alloc_bytes_remaining_ = @ - needed]
       ELSE AllocateFallback(a, bytes, base)

\* AllocateAligned(bytes).
AllocateAligned(a, bytes, base) ==
  LET current_mod == a.alloc_ptr_ % kAlign
      slop == IF current_mod = 0 THEN 0 ELSE kAlign - current_mod
      needed == bytes + slop
  IN IF needed <= a.alloc_bytes_remaining_
       THEN [a EXCEPT !.result = a.alloc_ptr_ + slop,
                      !.alloc_ptr_ = @ + needed,
                      !.alloc_bytes_remaining_ = @ - needed]
       ELSE AllocateFallback(a, bytes, base)

ArenaInit ==
  /\ alloc_ptr_ = 0
  /\ alloc_bytes_remaining_ = 0
  /\ blocks_ = <<>>
  /\ memory_usage_ = 0
  /\ a_regions = <<>>
  /\ a_last = [op |-> "none", bytes |-> 0, before |-> [alloc_ptr_ |-> 0,
               alloc_bytes_remaining_ |-> 0, blocks_ |-> <<>>,
               memory_usage_ |-> 0, result |-> 0]]

\* The arena after a call of `op` left it as `a`.
ArenaCall(op, bytes, a) ==
  /\ alloc_ptr_' = a.alloc_ptr_
  /\ alloc_bytes_remaining_' = a.alloc_bytes_remaining_
  /\ blocks_' = a.blocks_
  /\ memory_usage_' = a.memory_usage_
  /\ a_regions' = Append(a_regions, [addr |-> a.result, size |-> bytes])
  /\ a_last' = [op |-> op, bytes |-> bytes, before |-> ArenaNow]
  /\ UNCHANGED <<skipVars, iterVars, writerVars, readerVars, codingVars, searchVars, scanVars>>

AllocateCall ==
  /\ Len(a_regions) < MaxAllocs
  /\ \E bytes \in AllocSizes, base \in HostNew(blocks_) :
       ArenaCall("Allocate", bytes, Allocate(ArenaNow, bytes, base))

AllocateAlignedCall ==
  /\ Len(a_regions) < MaxAllocs
  /\ \E bytes \in AllocSizes, base \in HostNew(blocks_) :
       ArenaCall("AllocateAligned", bytes, AllocateAligned(ArenaNow, bytes, base))

NextArena == AllocateCall \/ AllocateAlignedCall

\* ----------------------------------------------------------------- coding
\* A uint32_t or uint64_t is kept as its bits, least significant first, so
\* that shifts and stores keep the width of the type.  A byte of a buffer is
\* a number 0..255.

\* The bytes the caller puts in a buffer itself: one with the high bit clear
\* and one with it set (0x02 and 0xAC, the encoding of 300 read backwards).
RawBytes == {2, 172}

\* v as an unsigned integer of `width` bits, for v below 2^31.
FromNat(v, width) ==
  [i \in 1..width |-> IF i > 31 THEN 0 ELSE (v \div (2 ^ (i - 1))) % 2]

\* The number held by the low n bits of a, n <= 31.
RECURSIVE LowBits(_, _)
LowBits(a, n) == IF n = 0 THEN 0 ELSE a[n] * (2 ^ (n - 1)) + LowBits(a, n - 1)

\* static_cast<uint8_t>: the store of an integer into a byte.
ToUint8(a) == LowBits(a, 8)

BitOr(a, b) == [i \in DOMAIN a |-> IF a[i] = 1 \/ b[i] = 1 THEN 1 ELSE 0]

BitAnd(a, b) == [i \in DOMAIN a |-> IF a[i] = 1 /\ b[i] = 1 THEN 1 ELSE 0]

\* a << n and a >> n in the width of a.
ShiftLeft(a, n) == [i \in DOMAIN a |-> IF i > n THEN a[i - n] ELSE 0]

ShiftRight(a, n) == [i \in DOMAIN a |-> IF i + n <= Len(a) THEN a[i + n] ELSE 0]

\* a < (1 << n)
BelowBit(a, n) == \A i \in DOMAIN a : i > n => a[i] = 0

\* The constants of the codec in the two widths, and a byte read into a
\* uint32_t or a uint64_t.
Zero32 == FromNat(0, 32)
B32 == FromNat(128, 32)
Low7Of32 == FromNat(127, 32)
Zero64 == FromNat(0, 64)
B64 == FromNat(128, 64)
Low7Of64 == FromNat(127, 64)
Uint32Of == [b \in 0..255 |-> FromNat(b, 32)]
Uint64Of == [b \in 0..255 |-> FromNat(b, 64)]

\* size >= len, size a size_t below 2^31 and len a uint32_t.
SizeAtLeast(size, len) == BelowBit(len, 31) /\ size >= LowBits(len, 31)

\* What an out-parameter holds when the callee never assigned it.
NotWritten == <<>>

NoSlice == [data |-> nullptr, size |-> 0]

\* Slice(const std::string& s).
Slice(s) == [data |-> 0, size |-> Len(s)]

\* The bytes a slice covers.
SliceBytes(buf, sl) == SubSeq(buf, sl.data + 1, sl.data + sl.size)

\* Slice::remove_prefix(n).
remove_prefix(sl, n) == [data |-> sl.data + n, size |-> sl.size - n]

\* Mutant of EncodeVarint32: the last byte of an encoding also gets the
\* continuation bit.
EncodeVarint32AllContinued(v) ==
  LET B == B32 IN
  IF BelowBit(v, 7) THEN <<ToUint8(BitOr(v, B))>>
  ELSE IF BelowBit(v, 14)
    THEN <<ToUint8(BitOr(v, B)), ToUint8(BitOr(ShiftRight(v, 7), B))>>
  ELSE IF BelowBit(v, 21)
    THEN <<ToUint8(BitOr(v, B)), ToUint8(BitOr(ShiftRight(v, 7), B)),
           ToUint8(BitOr(ShiftRight(v, 14), B))>>
  ELSE IF BelowBit(v, 28)
    THEN <<ToUint8(BitOr(v, B)), ToUint8(BitOr(ShiftRight(v, 7), B)),
           ToUint8(BitOr(ShiftRight(v, 14), B)), ToUint8(BitOr(ShiftRight(v, 21), B))>>
  ELSE <<ToUint8(BitOr(v, B)), ToUint8(BitOr(ShiftRight(v, 7), B)),
         ToUint8(BitOr(ShiftRight(v, 14), B)), ToUint8(BitOr(ShiftRight(v, 21), B)),
         ToUint8(BitOr(ShiftRight(v, 28), B))>>

\* EncodeVarint32(dst, v): the bytes written at dst (the pointer returned is
\* dst plus their number).
EncodeVarint32(v) ==
  LET B == B32 IN
  IF BelowBit(v, 7) THEN <<ToUint8(v)>>
  ELSE IF BelowBit(v, 14)
    THEN <<ToUint8(BitOr(v, B)), ToUint8(ShiftRight(v, 7))>>
  ELSE IF BelowBit(v, 21)
    THEN <<ToUint8(BitOr(v, B)), ToUint8(BitOr(ShiftRight(v, 7), B)),
           ToUint8(ShiftRight(v, 14))>>
  ELSE IF BelowBit(v, 28)
    THEN <<ToUint8(BitOr(v, B)), ToUint8(BitOr(ShiftRight(v, 7), B)),
           ToUint8(BitOr(ShiftRight(v, 14), B)), ToUint8(ShiftRight(v, 21))>>
  ELSE <<ToUint8(BitOr(v, B)), ToUint8(BitOr(ShiftRight(v, 7), B)),
         ToUint8(BitOr(ShiftRight(v, 14), B)), ToUint8(BitOr(ShiftRight(v, 21), B)),
         ToUint8(ShiftRight(v, 28))>>

\* PutVarint32(dst, v): the string after the call.
PutVarint32(s, v) == s \o EncodeVarint32(v)

\* PutLengthPrefixedSlice(dst, value), value given as its bytes.
PutLengthPrefixedSlice(s, value) ==
  PutVarint32(s, FromNat(Len(value), 32)) \o value

\* Mutant of GetVarint32PtrFallbackLoop: the loop runs while shift <= 35.
RECURSIVE GetVarint32PtrFallbackLoopSixBytes(_, _, _, _, _, _)
GetVarint32PtrFallbackLoopSixBytes(buf, p, limit, shift, result, old) ==
  IF shift <= 35 /\ p < limit
    THEN LET byte == Uint32Of[buf[p + 1]] IN
         IF BitAnd(byte, B32) # Zero32
           THEN GetVarint32PtrFallbackLoopSixBytes(buf, p + 1, limit, shift + 7,
                  BitOr(result, ShiftLeft(BitAnd(byte, Low7Of32), shift)),
                  old)
           ELSE [q |-> p + 1, value |-> BitOr(result, ShiftLeft(byte, shift))]
    ELSE [q |-> nullptr, value |-> old]

\* The loop of GetVarint32PtrFallback from byte p on, `old` being what *value
\* held before the call.  The result: the pointer returned (nullptr on
\* failure) and what *value holds afterwards.
RECURSIVE GetVarint32PtrFallbackLoop(_, _, _, _, _, _)
GetVarint32PtrFallbackLoop(buf, p, limit, shift, result, old) ==
  IF shift <= 28 /\ p < limit
    THEN LET byte == Uint32Of[buf[p + 1]] IN
         IF BitAnd(byte, B32) # Zero32
           THEN GetVarint32PtrFallbackLoop(buf, p + 1, limit, shift + 7,
                  BitOr(result, ShiftLeft(BitAnd(byte, Low7Of32), shift)),
                  old)
           ELSE [q |-> p + 1, value |-> BitOr(result, ShiftLeft(byte, shift))]
    ELSE [q |-> nullptr, value |-> old]

\* VarintLength(v), v below 2^31.
RECURSIVE VarintLength(_)
VarintLength(v) == IF v >= 128 THEN 1 + VarintLength(v \div 128) ELSE 1

\* GetVarint32PtrFallback(p, limit, value).
GetVarint32PtrFallback(buf, p, limit, old) ==
  GetVarint32PtrFallbackLoop(buf, p, limit, 0, Zero32, old)

\* GetVarint32Ptr(p, limit, value) of util/coding.h: decode_varint32.
GetVarint32Ptr(buf, p, limit, old) == GetVarint32PtrFallback(buf, p, limit, old)

\* GetVarint64Ptr(p, limit, value).
RECURSIVE GetVarint64PtrLoop(_, _, _, _, _, _)
GetVarint64PtrLoop(buf, p, limit, shift, result, old) ==
  IF shift <= 63 /\ p < limit
    THEN LET byte == Uint64Of[buf[p + 1]] IN
         IF BitAnd(byte, B64) # Zero64
           THEN GetVarint64PtrLoop(buf, p + 1, limit, shift + 7,
                  BitOr(result, ShiftLeft(BitAnd(byte, Low7Of64), shift)),
                  old)
           ELSE [q |-> p + 1, value |-> BitOr(result, ShiftLeft(byte, shift))]
    ELSE [q |-> nullptr, value |-> old]

GetVarint64Ptr(buf, p, limit, old) ==
  GetVarint64PtrLoop(buf, p, limit, 0, Zero64, old)

\* GetVarint32(input, value): what it returns, and input and *value afterwards.
GetVarint32(buf, in, old) ==
  LET p == in.data
      limit == p + in.size
      got == GetVarint32Ptr(buf, p, limit, old)
  IN IF got.q = nullptr
       THEN [ok |-> FALSE, input |-> in, value |-> got.value]
       ELSE [ok |-> TRUE, input |-> [data |-> got.q, size |-> limit - got.q],
             value |-> got.value]

\* Mutant of GetLengthPrefixedSlice: the bytes are not removed from input.
GetLengthPrefixedSliceKeepsPrefix(buf, in, old) ==
  LET got == GetVarint32(buf, in, NotWritten) IN
  IF got.ok /\ SizeAtLeast(got.input.size, got.value)
    THEN [ok |-> TRUE, input |-> got.input,
          result |-> [data |-> got.input.data, size |-> LowBits(got.value, 31)]]
    ELSE [ok |-> FALSE, input |-> got.input, result |-> old]

\* GetLengthPrefixedSlice(Slice* input, Slice* result): what it returns, and
\* input and *result afterwards (`old` is what *result held before).
GetLengthPrefixedSlice(buf, in, old) ==
  LET got == GetVarint32(buf, in, NotWritten) IN
  IF got.ok /\ SizeAtLeast(got.input.size, got.value)
    THEN [ok |-> TRUE,
          input |-> remove_prefix(got.input, LowBits(got.value, 31)),
          result |-> [data |-> got.input.data, size |-> LowBits(got.value, 31)]]
    ELSE [ok |-> FALSE, input |-> got.input, result |-> old]

\* The values given to PutVarint32: both sides of every size of encoding, and
\* the two values with bit 31 set.
Varint32Values ==
  {FromNat(v, 32) : v \in {0, 127, 128, 300, 16383, 16384, 2097151, 2097152,
                           268435455, 268435456}}
    \cup {[i \in 1..32 |-> IF i = 32 THEN 1 ELSE 0], [i \in 1..32 |-> 1]}

\* The byte ranges given to PutLengthPrefixedSlice: empty, "abc", and 128
\* bytes (a length of two bytes).
SliceValues == {<<>>, <<97, 98, 99>>, [i \in 1..128 |-> 97]}

NoPut == [op |-> "none", arg |-> <<>>, len |-> 0]

NoGet ==
  [op |-> "none", before |-> NoSlice, ok |-> FALSE, q |-> nullptr,
   value |-> NotWritten, result |-> NoSlice]

CodingInit ==
  /\ dst = <<>>
  /\ input = NoSlice
  /\ d_put = NoPut
  /\ d_last = NoGet

\* The bytes of s that have the high bit clear.
LowBytes(s) == {i \in 1..Len(s) : s[i] < 128}

\* The caller appends a byte of its own to the string, before any Slice is
\* made over it.
AppendByte ==
  /\ input = NoSlice
  /\ Len(dst) < MaxBytes
  /\ \E b \in RawBytes :
       /\ b < 128 => Cardinality(LowBytes(dst)) < MaxLowBytes
       /\ dst' = Append(dst, b)
  /\ UNCHANGED <<input, d_put, d_last>>
  /\ UNCHANGED <<skipVars, iterVars, writerVars, readerVars, arenaVars, searchVars, scanVars>>

\* PutVarint32(&dst, v) on an empty string.
PutVarint32Call ==
  /\ input = NoSlice
  /\ dst = <<>>
  /\ \E v \in Varint32Values :
       /\ dst' = PutVarint32(dst, v)
       /\ d_put' = [op |-> "PutVarint32", arg |-> v, len |-> Len(dst') - Len(dst)]
  /\ UNCHANGED <<input, d_last>>
  /\ UNCHANGED <<skipVars, iterVars, writerVars, readerVars, arenaVars, searchVars, scanVars>>

\* PutLengthPrefixedSlice(&dst, value) on an empty string.
PutLengthPrefixedSliceCall ==
  /\ input = NoSlice
  /\ dst = <<>>
  /\ \E value \in SliceValues :
       /\ dst' = PutLengthPrefixedSlice(dst, value)
       /\ d_put' = [op |-> "PutLengthPrefixedSlice", arg |-> value,
                    len |-> Len(dst') - Len(dst)]
  /\ UNCHANGED <<input, d_last>>
  /\ UNCHANGED <<skipVars, iterVars, writerVars, readerVars, arenaVars, searchVars, scanVars>>

\* Slice input(dst), or Slice input(dst.data(), dst.size() - 1): the reading
\* starts, over the whole string or over all but its last byte.
NewInput ==
  /\ input = NoSlice
  /\ \E cut \in {0, 1} :
       /\ cut <= Len(dst)
       /\ input' = [data |-> 0, size |-> Len(dst) - cut]
  /\ UNCHANGED <<dst, d_put, d_last>>
  /\ UNCHANGED <<skipVars, iterVars, writerVars, readerVars, arenaVars, searchVars, scanVars>>

\* A Get... call on input that returned `ok` and left input, *value and
\* *result as given.
GetCall(op, ok, q, in, value, result) ==
  /\ input' = in
  /\ d_last' = [op |-> op, before |-> input, ok |-> ok, q |-> q,
                value |-> value, result |-> result]
  /\ UNCHANGED <<dst, d_put>>
  /\ UNCHANGED <<skipVars, iterVars, writerVars, readerVars, arenaVars, searchVars, scanVars>>

\* GetVarint32PtrFallback(input.data(), input.data() + input.size(), &value).
GetVarint32PtrFallbackCall ==
  /\ input # NoSlice
  /\ LET got == GetVarint32PtrFallback(dst, input.data, input.data + input.size,
                                       NotWritten)
     IN GetCall("GetVarint32PtrFallback", got.q # nullptr, got.q, input,
                got.value, NoSlice)

\* GetVarint64Ptr(input.data(), input.data() + input.size(), &value).
GetVarint64PtrCall ==
  /\ input # NoSlice
  /\ LET got == GetVarint64Ptr(dst, input.data, input.data + input.size,
                               NotWritten)
     IN GetCall("GetVarint64Ptr", got.q # nullptr, got.q, input, got.value,
                NoSlice)

\* GetLengthPrefixedSlice(&input, &result).
GetLengthPrefixedSliceCall ==
  /\ input # NoSlice
  /\ LET got == GetLengthPrefixedSlice(dst, input, NoSlice)
     IN GetCall("GetLengthPrefixedSlice", got.ok, nullptr, got.input,
                NotWritten, got.result)

NextCoding ==
  \/ AppendByte
  \/ PutVarint32Call
  \/ PutLengthPrefixedSliceCall
  \/ NewInput
  \/ GetVarint32PtrFallbackCall
  \/ GetVarint64PtrCall
  \/ GetLengthPrefixedSliceCall

\* The reader that scans in SpecScan.
ScanReader == "r1"

ScanInit == scan_base = {}

\* ------------------------------------------------- a reader that searches
SearchInit ==
  /\ s_pc = "idle"
  /\ s_h = 1
  /\ s_key = 0
  /\ s_x = head_
  /\ s_level = 0
  /\ s_node = nullptr
  /\ s_ub = FALSE
  /\ s_before = FALSE

\* The values max_height_ has held: 1, and the height of every node taller
\* than all the nodes allocated before it (nodes are numbered in the order of
\* allocation; the last value is stored before its node is allocated).
MaxHeightValues ==
  {1, max_height_} \cup
    {nheight[n] : n \in {m \in Nodes : /\ nheight[m] > 0
                                       /\ \A j \in 1..(m - 1) : nheight[j] < nheight[m]}}

\* Contains(key) or Seek(target) begins: both call FindGreaterOrEqual(key,
\* nullptr), which starts at head_ on level GetMaxHeight() - 1.  The relaxed
\* load of max_height_ may return any value it has held.
S_Begin ==
  /\ s_pc \in {"idle", "done"}
  /\ ~s_ub
  /\ \E k \in Targets, h \in MaxHeightValues :
       /\ s_key' = k
       /\ s_h' = h
       /\ s_level' = h - 1
       /\ s_before' = (k \in w_done)
  /\ s_x' = head_
  /\ s_node' = nullptr
  /\ s_pc' = "find"
  /\ UNCHANGED s_ub
  /\ UNCHANGED <<skipVars, iterVars, writerVars, readerVars, arenaVars, codingVars, scanVars>>

\* One turn of FindGreaterOrEqual's loop in the reader: the load of
\* x->Next(level), then a step right, a step down, or the return of the node
\* (the locals x and level end with the call).  A load of a word never
\* written leaves the reader with a garbage pointer.
S_FindStep ==
  /\ s_pc = "find"
  /\ LET word == NodeNext(next_, s_x, s_level) IN
     \E next \in LoadValues(word) :
       LET turn == FindGreaterOrEqualStep(s_key, s_x, s_level,
                                          [i \in Levels |-> nullptr], next)
       IN IF word = Unwritten \/ turn.done
            THEN /\ s_ub' = (word = Unwritten)
                 /\ s_node' = next
                 /\ s_pc' = "done"
                 /\ s_x' = head_
                 /\ s_level' = 0
            ELSE /\ s_x' = turn.x
                 /\ s_level' = turn.level
                 /\ UNCHANGED <<s_node, s_pc, s_ub>>
  /\ UNCHANGED <<s_key, s_h, s_before>>
  /\ UNCHANGED <<skipVars, iterVars, writerVars, readerVars, arenaVars, codingVars, scanVars>>

\* The reader's other searches, begun like FindGreaterOrEqual: Prev() calls
\* FindLessThan(node_->key) and SeekToLast() calls FindLast().  The ghosts of
\* a Contains or Seek call are cleared.
S_BeginLessThan ==
  /\ s_pc \in {"idle", "done"}
  /\ ~s_ub
  /\ \E k \in Targets, h \in MaxHeightValues :
       /\ s_key' = k
       /\ s_level' = h - 1
  /\ s_x' = head_
  /\ s_node' = nullptr
  /\ s_pc' = "findlt"
  /\ s_h' = 1
  /\ s_before' = FALSE
  /\ UNCHANGED s_ub
  /\ UNCHANGED <<skipVars, iterVars, writerVars, readerVars, arenaVars, codingVars, scanVars>>

S_BeginLast ==
  /\ s_pc \in {"idle", "done"}
  /\ ~s_ub
  /\ \E h \in MaxHeightValues : s_level' = h - 1
  /\ s_key' = 0
  /\ s_x' = head_
  /\ s_node' = nullptr
  /\ s_pc' = "findlast"
  /\ s_h' = 1
  /\ s_before' = FALSE
  /\ UNCHANGED s_ub
  /\ UNCHANGED <<skipVars, iterVars, writerVars, readerVars, arenaVars, codingVars, scanVars>>

\* The reader after a turn of a loop that loaded `word` and, with the pointer
\* `next` read from it, came to `turn`; the loop returns its x.
S_Turn(word, next, turn) ==
  /\ IF word = Unwritten \/ turn.done
       THEN /\ s_ub' = (word = Unwritten)
            /\ s_node' = IF word = Unwritten THEN next ELSE turn.x
            /\ s_pc' = "done"
            /\ s_x' = head_
            /\ s_level' = 0
       ELSE /\ s_x' = turn.x
            /\ s_level' = turn.level
            /\ UNCHANGED <<s_node, s_pc, s_ub>>
  /\ UNCHANGED <<s_key, s_h, s_before>>
  /\ UNCHANGED <<skipVars, iterVars, writerVars, readerVars, arenaVars, codingVars, scanVars>>

\* One turn of FindLessThan's loop in the reader.
S_LessThanStep ==
  /\ s_pc = "findlt"
  /\ LET word == NodeNext(next_, s_x, s_level) IN
     \E next \in LoadValues(word) :
       S_Turn(word, next, FindLessThanStep(s_key, s_x, s_level, next))

\* One turn of FindLast's loop in the reader.
S_LastStep ==
  /\ s_pc = "findlast"
  /\ LET word == NodeNext(next_, s_x, s_level) IN
     \E next \in LoadValues(word) :
       S_Turn(word, next, FindLastStep(s_x, s_level, next))

Init ==
  /\ SkipListInit
  /\ IterInit
  /\ WriterInit
  /\ ReaderInit
  /\ ArenaInit
  /\ CodingInit
  /\ SearchInit
  /\ ScanInit

Next ==
  \/ InsertCall
  \/ ContainsCall
  \/ NewIterator
  \/ IterNext
  \/ IterPrev
  \/ IterSeek
  \/ IterSeekToFirst
  \/ IterSeekToLast

Spec == Init /\ [][Next]_vars

\* ------------------------------------------- SpecConc: writer and reader
\* The writer runs Insert one shared-memory access at a time.

\* Insert is called with a key not yet given; FindGreaterOrEqual(key, prev)
\* starts at head_ on the level GetMaxHeight() - 1 (lines 561-564).
W_Insert ==
  /\ w_pc = "idle"
  /\ \E k \in Keys \ inserted :
       /\ inserted' = inserted \cup {k}
       /\ w_key' = k
  /\ w_fx' = head_
  /\ w_level' = GetMaxHeight - 1
  /\ w_prev' = [i \in Levels |-> Unwritten]
  /\ w_pc' = "find"
  /\ UNCHANGED <<key, next_, nheight, max_height_, w_height, w_x, w_i, w_done>>
  /\ UNCHANGED <<iterVars, readerVars, arenaVars, codingVars, searchVars, scanVars>>

\* One turn of FindGreaterOrEqual's loop (lines 465-482): a load of
\* x->Next(level), then a step right, a step down, or the return to Insert.
W_FindStep ==
  /\ w_pc = "find"
  /\ \E next \in LoadValues(NodeNext(next_, w_fx, w_level)) :
       LET turn == FindGreaterOrEqualStep(w_key, w_fx, w_level, w_prev, next) IN
       /\ w_fx' = turn.x
       /\ w_level' = turn.level
       /\ w_prev' = turn.prev
       /\ w_x' = IF turn.done THEN turn.node ELSE w_x
       /\ w_pc' = IF turn.done THEN "height" ELSE "find"
  /\ UNCHANGED <<skipVars, w_key, w_height, w_i, w_done>>
  /\ UNCHANGED <<iterVars, readerVars, arenaVars, codingVars, searchVars, scanVars>>

\* Insert, lines 569-586: draws the height and, for a taller node, raises
\* max_height_ (a relaxed store).
W_Height ==
  /\ w_pc = "height"
  /\ \E height \in RandomHeight :
       /\ w_height' = height
       /\ w_prev' = RaisePrev(w_prev, height, GetMaxHeight)
       /\ max_height_' = RaiseMaxHeight(height, GetMaxHeight)
  /\ w_pc' = "newnode"
  /\ UNCHANGED <<key, next_, nheight, inserted, w_key, w_fx, w_level, w_x, w_i, w_done>>
  /\ UNCHANGED <<iterVars, readerVars, arenaVars, codingVars, searchVars, scanVars>>

\* Insert, line 588: x = NewNode(key, height); only the key is constructed.
W_NewNode ==
  /\ w_pc = "newnode"
  /\ NewNode \in Nodes
  /\ w_x' = NewNode
  /\ key' = [key EXCEPT ![NewNode] = w_key]
  /\ nheight' = [nheight EXCEPT ![NewNode] = w_height]
  /\ w_i' = 0
  /\ w_pc' = "init"
  /\ UNCHANGED <<next_, max_height_, inserted, w_key, w_fx, w_level, w_prev, w_height, w_done>>
  /\ UNCHANGED <<iterVars, readerVars, arenaVars, codingVars, searchVars, scanVars>>

\* Insert, line 601, for i = w_i.
W_InitLevel ==
  /\ w_pc = "init"
  /\ next_' = InitLevel(next_, w_x, w_prev, w_i)
  /\ w_pc' = "publish"
  /\ UNCHANGED <<key, nheight, max_height_, inserted>>
  /\ UNCHANGED <<w_key, w_fx, w_level, w_prev, w_height, w_x, w_i, w_done>>
  /\ UNCHANGED <<iterVars, readerVars, arenaVars, codingVars, searchVars, scanVars>>

\* Insert, line 612, for i = w_i, then i++ and the loop test; Insert returns
\* after the last level.
W_PublishLevel ==
  /\ w_pc = "publish"
  /\ next_' = PublishLevel(next_, w_x, w_prev, w_i)
  /\ w_i' = w_i + 1
  /\ IF w_i + 1 < w_height
       THEN w_pc' = "init" /\ w_done' = w_done
       ELSE w_pc' = "idle" /\ w_done' = w_done \cup {w_key}
  /\ UNCHANGED <<key, nheight, max_height_, inserted>>
  /\ UNCHANGED <<w_key, w_fx, w_level, w_prev, w_height, w_x>>
  /\ UNCHANGED <<iterVars, readerVars, arenaVars, codingVars, searchVars, scanVars>>

\* What a read of node n's key can return: garbage if n was never constructed.
KeyValues(n) == IF n \in Nodes /\ nheight[n] = 0 THEN Targets ELSE {key[n]}

\* Reader r's scan has run to the end: its iterator is not Valid().
ScanEnded(r) == r_pc[r] = "scan" /\ r_node[r] = nullptr

\* iter.SeekToFirst(): node_ = head_->Next(0).  Starts r's first scan, or its
\* next one when a scan has ended.
R_SeekToFirst(r) ==
  /\ r_pc[r] = "idle" \/ ScanEnded(r)
  /\ r_pc' = [r_pc EXCEPT ![r] = "scan"]
  /\ \E to \in LoadValues(NodeNext(next_, head_, 0)) :
       r_node' = [r_node EXCEPT ![r] = to]
  /\ r_seen' = [r_seen EXCEPT ![r] = <<>>]
  /\ r_after' = [r_after EXCEPT ![r] = (w_pc = "idle" /\ w_done = Keys)]
  /\ UNCHANGED <<skipVars, iterVars, writerVars, arenaVars, codingVars, searchVars>>

\* One turn of r's scan loop on a Valid() iterator: iter.key() is read, then
\* iter.Next(): node_ = node_->Next(0).
R_Next(r) ==
  /\ r_pc[r] = "scan"
  /\ r_node[r] # nullptr
  /\ \E k \in KeyValues(r_node[r]) : r_seen' = [r_seen EXCEPT ![r] = Append(@, k)]
  /\ \E to \in LoadValues(NodeNext(next_, r_node[r], 0)) :
       r_node' = [r_node EXCEPT ![r] = to]
  /\ UNCHANGED <<r_pc, r_after>>
  /\ UNCHANGED <<skipVars, iterVars, writerVars, arenaVars, codingVars, searchVars>>

R_SeekToFirstStep ==
  /\ \E r \in Readers : R_SeekToFirst(r)
  /\ UNCHANGED scanVars

R_NextStep ==
  /\ \E r \in Readers : R_Next(r)
  /\ UNCHANGED scanVars

\* ------------------------------------- SpecScan: writer and one scanner
\* The scans of one reader, with the keys whose Insert had returned when the
\* scan began.
Scan_SeekToFirst ==
  /\ R_SeekToFirst(ScanReader)
  /\ scan_base' = w_done

Scan_Next ==
  /\ R_Next(ScanReader)
  /\ UNCHANGED scanVars

NextConc ==
  \/ W_Insert
  \/ W_FindStep
  \/ W_Height
  \/ W_NewNode
  \/ W_InitLevel
  \/ W_PublishLevel
  \/ R_SeekToFirstStep
  \/ R_NextStep

NextSearch ==
  \/ W_Insert
  \/ W_FindStep
  \/ W_Height
  \/ W_NewNode
  \/ W_InitLevel
  \/ W_PublishLevel
  \/ S_Begin
  \/ S_FindStep

NextInsert ==
  \/ W_Insert
  \/ W_FindStep
  \/ W_Height
  \/ W_NewNode
  \/ W_InitLevel
  \/ W_PublishLevel

NextScan ==
  \/ W_Insert
  \/ W_FindStep
  \/ W_Height
  \/ W_NewNode
  \/ W_InitLevel
  \/ W_PublishLevel
  \/ Scan_SeekToFirst
  \/ Scan_Next

SpecConc == Init /\ [][NextConc]_vars

SpecArena == Init /\ [][NextArena]_vars

SpecCoding == Init /\ [][NextCoding]_vars

SpecSearch == Init /\ [][NextSearch]_vars

SpecInsert == Init /\ [][NextInsert]_vars

SpecScan == Init /\ [][NextScan]_vars

\* ------------------------------------------------- SpecLive: fair threads
\* A thread that is inside a call keeps running: the reader takes the next
\* turn of its search loop, the writer the next access of its Insert.  Whether
\* a thread makes another call is left open.
ReaderStep == S_FindStep \/ S_LessThanStep \/ S_LastStep

WriterStep == W_FindStep \/ W_Height \/ W_NewNode \/ W_InitLevel \/ W_PublishLevel

NextLive ==
  \/ W_Insert
  \/ W_FindStep
  \/ W_Height
  \/ W_NewNode
  \/ W_InitLevel
  \/ W_PublishLevel
  \/ S_Begin
  \/ S_FindStep
  \/ S_BeginLessThan
  \/ S_LessThanStep
  \/ S_BeginLast
  \/ S_LastStep

SpecLive ==
  Init /\ [][NextLive]_vars /\ WF_vars(ReaderStep) /\ WF_vars(WriterStep)

\* ================================================================ claims
SetOf(seq) == {seq[i] : i \in 1..Len(seq)}

StrictlyIncreasing(seq) == \A i \in 1..(Len(seq) - 1) : seq[i] < seq[i + 1]

StrictlyDecreasing(seq) == \A i \in 1..(Len(seq) - 1) : seq[i] > seq[i + 1]

\* The nodes met from x on by following level-`level` pointers, at most `fuel`
\* of them; the walk ends at nullptr, or at a word that was never written.
RECURSIVE Chain(_, _, _)
Chain(x, level, fuel) ==
  LET n == next_[x][level] IN
  IF fuel = 0 \/ n \notin Nodes THEN <<>> ELSE <<n>> \o Chain(n, level, fuel - 1)

\* The nodes reachable from head_ at a level.
ReachableAt(level) == SetOf(Chain(head_, level, MaxKeys + 1))

Smallest(S) == CHOOSE k \in S : \A j \in S : k <= j

Largest(S) == CHOOSE k \in S : \A j \in S : k >= j

\* The last iterator call.
LastCall == it_hist[Len(it_hist)]

\* C1: with the writer inserting the keys 1..MaxKeys in any order, store by
\* store, and the readers each scanning from SeekToFirst with Next, every scan
\* reads a strictly increasing sequence of keys the writer was given, and a
\* scan begun after the writer finished reads exactly the keys 1..MaxKeys.
C1_ScanIncreasingAndComplete ==
  \A r \in Readers :
    r_pc[r] = "scan" =>
      /\ StrictlyIncreasing(r_seen[r])
      /\ SetOf(r_seen[r]) \subseteq inserted
      /\ (ScanEnded(r) /\ r_after[r] =>
            SetOf(r_seen[r]) = Keys /\ Len(r_seen[r]) = MaxKeys)

\* One scan, begun after the writer finished, has ended with every key read;
\* another, overtaken by the writer, ended having read some keys but not all.
C1_Witness ==
  \E r, q \in Readers :
    /\ ScanEnded(r) /\ r_after[r] /\ Len(r_seen[r]) = MaxKeys
    /\ ScanEnded(q) /\ ~r_after[q] /\ Len(r_seen[q]) \in 1..(MaxKeys - 1)

C3_TraversalAscendingAndComplete ==
  trail.dir = "fwd" =>
    /\ StrictlyIncreasing(trail.keys)
    /\ (it_node = nullptr =>
          SetOf(trail.keys) = inserted /\ Len(trail.keys) = Cardinality(inserted))

\* A traversal of a list holding every key, over more than one level, has ended.
C3_Witness ==
  /\ trail.dir = "fwd"
  /\ it_node = nullptr
  /\ Len(trail.keys) = MaxKeys
  /\ max_height_ > 1

\* C4: Contains(k) returns true if and only if k is one of the inserted keys.
C4_ContainsIffInserted ==
  c_last # NoCall => (c_last.result <=> c_last.k \in inserted)

\* Contains found a key of a list of more than one level.
C4_Witness == c_last.result /\ c_last.k \in inserted /\ max_height_ > 1

\* C5: Seek(t) leaves the cursor at the node with the least key >= t, and
\* invalid exactly when no inserted key is >= t.
C5_SeekLeastGreaterOrEqual ==
  (it_hist # <<>> /\ LastCall.op = "Seek") =>
    LET atOrAfter == {k \in inserted : k >= LastCall.arg} IN
    /\ ~it_ub
    /\ (it_node = nullptr) <=> (atOrAfter = {})
    /\ (atOrAfter # {} => it_node \in Nodes /\ key[it_node] = Smallest(atOrAfter))

\* Seek(t) for a t that is not in the list, with smaller and larger keys in it,
\* left the cursor at a larger key.
C5_Witness ==
  /\ it_hist # <<>>
  /\ LastCall.op = "Seek"
  /\ LastCall.arg \notin inserted
  /\ \E k \in inserted : k < LastCall.arg
  /\ it_node \in Nodes
  /\ key[it_node] > LastCall.arg

\* Next() and then Prev() were the last two calls, the first on a valid cursor.
NextThenPrev ==
  /\ Len(it_hist) = 2
  /\ it_hist[1].op = "Next"
  /\ it_hist[2].op = "Prev"
  /\ it_hist[1].from \in Nodes

\* C6 as claimed: from a valid cursor not at the smallest key, Next() and then
\* Prev() leaves the cursor valid and at the key it started at.
C6_NextPrevFromNotFirst ==
  (NextThenPrev /\ key[it_hist[1].from] # Smallest(inserted)) =>
    ~it_ub /\ it_node = it_hist[1].from

\* C6, amended: from a valid cursor not at the largest key, Next() and then
\* Prev() leaves the cursor valid and at the key it started at.
C6_NextPrevFromNotLast ==
  (NextThenPrev /\ key[it_hist[1].from] # Largest(inserted)) =>
    ~it_ub /\ it_node = it_hist[1].from /\ key[it_node] = key[it_hist[1].from]

\* Next() and Prev() came back to a node that is neither first nor last, in a
\* list of more than one level.
C6_Witness ==
  /\ NextThenPrev
  /\ key[it_hist[1].from] # Largest(inserted)
  /\ key[it_hist[1].from] # Smallest(inserted)
  /\ it_node = it_hist[1].from
  /\ max_height_ > 1

\* C7: Prev() on a valid cursor at key k moves it to the greatest key below k,
\* and makes it invalid exactly when k is the smallest key; so SeekToLast and
\* then Prev alone visits the keys in strictly descending order, all of them
\* once the cursor is invalid.
C7_PrevGreatestBelow ==
  /\ (it_hist # <<>> /\ LastCall.op = "Prev" /\ LastCall.from \in Nodes) =>
       LET below == {k \in inserted : k < key[LastCall.from]} IN
       /\ ~it_ub
       /\ (it_node = nullptr) <=> (key[LastCall.from] = Smallest(inserted))
       /\ (below # {} => it_node \in Nodes /\ key[it_node] = Largest(below))
  /\ trail.dir = "bwd" =>
       /\ StrictlyDecreasing(trail.keys)
       /\ (it_node = nullptr =>
             SetOf(trail.keys) = inserted /\ Len(trail.keys) = Cardinality(inserted))

\* SeekToLast and Prev alone have walked a list holding every key, over more
\* than one level, down to the invalid cursor.
C7_Witness ==
  /\ trail.dir = "bwd"
  /\ it_node = nullptr
  /\ Len(trail.keys) = MaxKeys
  /\ LastCall.op = "Prev"
  /\ max_height_ > 1

\* ---------------------------------------------------------- Arena claims
LastRegion == a_regions[Len(a_regions)]

\* The last call took its region from a block of exactly its size appended by
\* the call, and left alloc_ptr_ and alloc_bytes_remaining_ as they were.
ServedFromDedicatedBlock ==
  /\ Len(blocks_) = Len(a_last.before.blocks_) + 1
  /\ blocks_[Len(blocks_)] = [base |-> LastRegion.addr, size |-> a_last.bytes]
  /\ LastRegion.size = a_last.bytes
  /\ alloc_ptr_ = a_last.before.alloc_ptr_
  /\ alloc_bytes_remaining_ = a_last.before.alloc_bytes_remaining_

\* C8 as claimed: whatever remains in the current block, Allocate(n) with
\* n > kBlockSize / 4 is served from a new block of size n and leaves
\* alloc_ptr_ and alloc_bytes_remaining_ unchanged.
C8_LargeAlwaysDedicated ==
  (a_last.op = "Allocate" /\ a_last.bytes > kBlockSize \div 4) =>
    ServedFromDedicatedBlock

\* C8, amended: Allocate(n) with n > kBlockSize / 4 and n greater than the
\* bytes remaining in the current block is served from a new block of size n
\* and leaves alloc_ptr_ and alloc_bytes_remaining_ unchanged.
C8_LargeDedicatedWhenNotFitting ==
  (/\ a_last.op = "Allocate"
   /\ a_last.bytes > kBlockSize \div 4
   /\ a_last.bytes > a_last.before.alloc_bytes_remaining_) =>
    ServedFromDedicatedBlock

\* A large Allocate that did not fit was served while the current block still
\* had bytes left.
C8_Witness ==
  /\ a_last.op = "Allocate"
  /\ a_last.bytes > kBlockSize \div 4
  /\ a_last.bytes > a_last.before.alloc_bytes_remaining_
  /\ a_last.before.alloc_bytes_remaining_ > 0
  /\ ServedFromDedicatedBlock

RegionInBlock(r, b) == b.base <= r.addr /\ r.addr + r.size <= BlockEnd(b)

RegionsDisjoint(r, q) == r.addr + r.size <= q.addr \/ q.addr + q.size <= r.addr

\* C9: every region returned by Allocate or AllocateAligned lies inside one
\* block of blocks_, and any two regions returned are disjoint.
C9_RegionsInsideBlocksAndDisjoint ==
  /\ \A i \in 1..Len(a_regions) :
       \E j \in 1..Len(blocks_) : RegionInBlock(a_regions[i], blocks_[j])
  /\ \A i, j \in 1..Len(a_regions) :
       i < j => RegionsDisjoint(a_regions[i], a_regions[j])

\* Two regions were carved from one block, the later one by AllocateAligned
\* from an unaligned alloc_ptr_, and there is a second block.
C9_Witness ==
  /\ Len(blocks_) > 1
  /\ a_last.op = "AllocateAligned"
  /\ a_last.before.alloc_ptr_ % kAlign # 0
  /\ \E i \in 1..(Len(a_regions) - 1) : \E j \in 1..Len(blocks_) :
       /\ RegionInBlock(a_regions[i], blocks_[j])
       /\ RegionInBlock(LastRegion, blocks_[j])

\* C10: with every block from the host aligned to kAlign, AllocateAligned
\* returns an address that is a multiple of kAlign.
C10_AlignedResult ==
  a_last.op = "AllocateAligned" => LastRegion.addr % kAlign = 0

\* AllocateAligned skipped padding bytes of the current block.
C10_Witness ==
  /\ a_last.op = "AllocateAligned"
  /\ a_last.before.alloc_ptr_ % kAlign # 0
  /\ Len(blocks_) = Len(a_last.before.blocks_)
  /\ LastRegion.addr > a_last.before.alloc_ptr_

\* The sum over the blocks of (size + sizeof(char*)).
RECURSIVE BlocksUsage(_)
BlocksUsage(blocks) ==
  IF blocks = <<>> THEN 0
  ELSE blocks[1].size + kPointerSize + BlocksUsage(Tail(blocks))

\* C11: memory_usage_ is the sum over blocks_ of (size + sizeof(char*)); a
\* call never lowers it, leaves it alone when it appends no block, and raises
\* it by the new block's size + sizeof(char*) when it appends one; after a
\* first request of 1 byte and a second of kBlockSize bytes it is at least
\* 2 * kBlockSize + 2 * sizeof(char*).
C11_MemoryUsageSumsBlocks ==
  /\ memory_usage_ = BlocksUsage(blocks_)
  /\ a_last.op # "none" =>
       LET before == a_last.before IN
       /\ memory_usage_ >= before.memory_usage_
       /\ Len(blocks_) \in {Len(before.blocks_), Len(before.blocks_) + 1}
       /\ SubSeq(blocks_, 1, Len(before.blocks_)) = before.blocks_
       /\ Len(blocks_) = Len(before.blocks_) =>
            memory_usage_ = before.memory_usage_
       /\ Len(blocks_) = Len(before.blocks_) + 1 =>
            memory_usage_ =
              before.memory_usage_ + blocks_[Len(blocks_)].size + kPointerSize
  /\ (/\ Len(a_regions) >= 2
      /\ a_regions[1].size = 1
      /\ a_regions[2].size = kBlockSize) =>
       memory_usage_ >= 2 * kBlockSize + 2 * kPointerSize

\* Allocate(kBlockSize) has just followed a request of 1 byte: two blocks of
\* kBlockSize bytes, the second one dedicated to the call.
C11_Witness ==
  /\ Len(a_regions) = 2
  /\ a_regions[1].size = 1
  /\ a_last.op = "Allocate"
  /\ a_last.bytes = kBlockSize
  /\ Len(blocks_) = 2
  /\ blocks_[2] = [base |-> LastRegion.addr, size |-> kBlockSize]
  /\ memory_usage_ = 2 * kBlockSize + 2 * kPointerSize

\* --------------------------------------------------------- coding claims
\* C12 as claimed: when GetLengthPrefixedSlice(input, result) returns false,
\* input has the start and the size it had before the call.
C12_FailureLeavesInputUnchanged ==
  (d_last.op = "GetLengthPrefixedSlice" /\ ~d_last.ok) => input = d_last.before

\* The bytes of the call's range [p, limit) that can end a varint of at most
\* `budget` bytes, as offsets from p.
EndingBytes(budget) ==
  {i \in 0..(budget - 1) :
     /\ i < d_last.before.size
     /\ dst[d_last.before.data + i + 1] < 128}

\* The number of bytes a decoder may read: 5 for varint32, 10 for varint64.
ByteBudget == IF d_last.op = "GetVarint64Ptr" THEN 10 ELSE 5

\* C13: GetVarint32PtrFallback and GetVarint64Ptr, called on [p, limit),
\* succeed if and only if one of the first 5 (10 for varint64) bytes of the
\* range has the high bit clear; on success they return the position after the
\* first such byte, and on failure nullptr with *value not written.
C13_DecodeSucceedsIffTerminated ==
  d_last.op \in {"GetVarint32PtrFallback", "GetVarint64Ptr"} =>
    LET ending == EndingBytes(ByteBudget) IN
    /\ d_last.ok <=> ending # {}
    /\ d_last.ok =>
         /\ d_last.q = d_last.before.data + Smallest(ending) + 1
         /\ d_last.value # NotWritten
    /\ ~d_last.ok =>
         /\ d_last.q = nullptr
         /\ d_last.value = NotWritten
    /\ input = d_last.before

\* GetVarint32PtrFallback was given five bytes with the high bit set and a
\* sixth, inside the range, with the high bit clear, and failed.
C13_Witness ==
  /\ d_last.op = "GetVarint32PtrFallback"
  /\ ~d_last.ok
  /\ d_last.before.size >= 6
  /\ \A i \in 1..5 : dst[d_last.before.data + i] >= 128
  /\ dst[d_last.before.data + 6] < 128

\* C14: GetVarint32PtrFallback on the bytes PutVarint32(v) wrote (and at
\* least those) returns v and the position after the last byte written, 1 to
\* 5 bytes; 300 is written as 0xAC 0x02, 127 as 0x7F and 0 as 0x00.
C14_Varint32RoundTrip ==
  d_put.op = "PutVarint32" =>
    /\ d_put.len \in 1..5
    /\ d_put.arg = FromNat(300, 32) => SubSeq(dst, 1, d_put.len) = <<172, 2>>
    /\ d_put.arg = FromNat(127, 32) => SubSeq(dst, 1, d_put.len) = <<127>>
    /\ d_put.arg = FromNat(0, 32) => SubSeq(dst, 1, d_put.len) = <<0>>
    /\ (/\ d_last.op = "GetVarint32PtrFallback"
        /\ d_last.before.data = 0
        /\ d_last.before.size >= d_put.len) =>
         /\ d_last.ok
         /\ d_last.value = d_put.arg
         /\ d_last.q = d_put.len

\* 2^32 - 1 was written in five bytes, more bytes follow, and it was read back.
C14_Witness ==
  /\ d_put.op = "PutVarint32"
  /\ d_put.arg = [i \in 1..32 |-> 1]
  /\ d_put.len = 5
  /\ Len(dst) > 5
  /\ d_last.op = "GetVarint32PtrFallback"
  /\ d_last.ok
  /\ d_last.q = 5

\* C15: GetLengthPrefixedSlice on the bytes PutLengthPrefixedSlice(r) wrote
\* (and at least those) returns true with *result covering bytes equal to r,
\* and leaves input VarintLength(r.size()) + r.size() bytes further on, over
\* the bytes that followed; "abc" is written as 0x03 'a' 'b' 'c'.
C15_LengthPrefixedRoundTrip ==
  d_put.op = "PutLengthPrefixedSlice" =>
    LET r == d_put.arg
        written == VarintLength(Len(r)) + Len(r)
    IN /\ d_put.len = written
       /\ r = <<97, 98, 99>> => SubSeq(dst, 1, d_put.len) = <<3, 97, 98, 99>>
       /\ (/\ d_last.op = "GetLengthPrefixedSlice"
           /\ d_last.before.data = 0
           /\ d_last.before.size >= d_put.len) =>
            /\ d_last.ok
            /\ d_last.result.size = Len(r)
            /\ SliceBytes(dst, d_last.result) = r
            /\ input = [data |-> written, size |-> d_last.before.size - written]
            /\ SliceBytes(dst, input) = SubSeq(dst, written + 1, d_last.before.size)

\* "abc" was written, two more bytes were appended, and the range was read
\* back with the two bytes left as the input.
C15_Witness ==
  /\ d_put.op = "PutLengthPrefixedSlice"
  /\ d_put.arg = <<97, 98, 99>>
  /\ d_last.op = "GetLengthPrefixedSlice"
  /\ d_last.before = [data |-> 0, size |-> 6]
  /\ d_last.ok
  /\ input = [data |-> 4, size |-> 2]

\* ----------------------------------------------- claims on a live Insert
\* What Contains(s_key) returns once FindGreaterOrEqual has returned s_node.
ContainsResult == s_node # nullptr /\ Equal(s_key, key[s_node])

\* C16: a Contains(k) or Seek(k) of the reader, run load by load against the
\* writer's Inserts and started from any value max_height_ has held, never
\* loads an unwritten word; for a k whose Insert had returned when the call
\* began, Contains returns true and Seek leaves the cursor at k; Contains
\* returns true, and Seek leaves the cursor, only at a key given to Insert
\* (for Seek, one that is not below k).
C16_ConcurrentSearchCorrect ==
  s_pc = "done" =>
    /\ ~s_ub
    /\ s_node \in Ptr
    /\ s_before => (ContainsResult /\ s_node \in Nodes /\ key[s_node] = s_key)
    /\ ContainsResult => s_key \in inserted
    /\ s_node # nullptr =>
         /\ s_node \in Nodes
         /\ nheight[s_node] > 0
         /\ key[s_node] \in inserted
         /\ key[s_node] >= s_key

\* The reader read the raised max_height_ while head_'s pointer at the new
\* top level was still null, and found a key inserted before it began, with
\* the writer still inside the Insert that raised the height.
C16_Witness ==
  /\ s_pc = "done"
  /\ s_h > 1
  /\ s_h = max_height_
  /\ next_[head_][s_h - 1] = nullptr
  /\ w_pc \in {"newnode", "init", "publish"}
  /\ s_before
  /\ ContainsResult

\* The keys of the nodes met from head_ at a level, in the order met.
ChainKeys(level) ==
  LET chain == Chain(head_, level, MaxKeys + 1) IN
  [i \in 1..Len(chain) |-> key[chain[i]]]

\* The pointer that ends the walk from head_ at a level.
ChainEnd(level) ==
  LET chain == Chain(head_, level, MaxKeys + 1) IN
  IF chain = <<>> THEN next_[head_][level]
  ELSE next_[chain[Len(chain)]][level]

\* The writer is between two stores of an Insert.
InsertInProgress == w_pc \in {"init", "publish"}

\* C17: in every state of the writer, between any two stores of an Insert
\* too, the walk from head_ at every level 0..kMaxHeight-1 meets nodes with
\* strictly increasing keys and ends at nullptr.
C17_LevelsSortedAndNullEnded ==
  \A level \in Levels :
    /\ StrictlyIncreasing(ChainKeys(level))
    /\ Len(ChainKeys(level)) <= MaxKeys
    /\ ChainEnd(level) = nullptr

\* A node of height 2 is linked at level 0 between two nodes and initialized,
\* but not yet linked, at level 1.
C17_Witness ==
  /\ w_pc = "publish"
  /\ w_i = 1
  /\ w_x \in ReachableAt(0)
  /\ w_x \notin ReachableAt(1)
  /\ \E a, b \in ReachableAt(0) : key[a] < key[w_x] /\ key[w_x] < key[b]

\* C18: in every state of the writer, between any two stores of an Insert
\* too, the nodes reachable from head_ at level L + 1 are reachable at level
\* L, for every L with L + 1 < kMaxHeight.
C18_UpperLevelsAreSubsets ==
  \A level \in Levels :
    level + 1 < kMaxHeight => ReachableAt(level + 1) \subseteq ReachableAt(level)

\* The node being inserted, of height 2, is linked at level 0 and its level-1
\* pointer is not written yet, while another node is linked at both levels.
C18_Witness ==
  /\ w_pc = "init"
  /\ w_i = 1
  /\ w_height = 2
  /\ w_x \in ReachableAt(0) \ ReachableAt(1)
  /\ next_[w_x][1] = Unwritten
  /\ ReachableAt(1) # {}

\* About max_height_ in one state: it is in 1..kMaxHeight and not below the
\* height of any node allocated (so of any node linked at any level), and the
\* heights drawn are in 1..kMaxHeight.
MaxHeightCoversNodes ==
  /\ max_height_ \in 1..kMaxHeight
  /\ \A n \in Nodes : nheight[n] > 0 =>
       nheight[n] \in 1..kMaxHeight /\ nheight[n] <= max_height_
  /\ \A level \in Levels : \A n \in ReachableAt(level) :
       nheight[n] > level /\ nheight[n] <= max_height_
  /\ w_pc \in {"newnode", "init", "publish"} =>
       w_height \in 1..kMaxHeight /\ w_height <= max_height_

C20_StartLevelDoesNotMatter ==
  \A h \in 1..max_height_ :
    /\ FindLast(h) = FindLast(max_height_)
    /\ FindLast(h) # Unwritten
    /\ \A k \in Targets :
         /\ FindGreaterOrEqual(k, h).node = FindGreaterOrEqual(k, max_height_).node
         /\ FindGreaterOrEqual(k, h).node # Unwritten
         /\ FindLessThan(k, h) = FindLessThan(k, max_height_)
         /\ FindLessThan(k, h) # Unwritten

\* The list has two levels, its last node is on level 0 only, and a node of
\* height 2 is being linked: the searches from level 1 step over nodes that
\* those from level 0 walk through.
C20_Witness ==
  /\ max_height_ > 1
  /\ InsertInProgress
  /\ ReachableAt(1) # {}
  /\ FindLast(max_height_) \in Nodes
  /\ nheight[FindLast(max_height_)] = 1
  /\ FindLast(1) = FindLast(max_height_)
  /\ Cardinality(ReachableAt(0)) > Cardinality(ReachableAt(1)) + 1

\* A block that one call returned whole: AllocateFallback's block for a
\* request above kBlockSize / 4.
DedicatedBlock(b) ==
  \E i \in 1..Len(a_regions) :
    a_regions[i] = [addr |-> b.base, size |-> b.size]

\* The blocks (by position in blocks_) that were not returned whole.
SharedBlocks == {j \in 1..Len(blocks_) : ~DedicatedBlock(blocks_[j])}

\* C21 as claimed: when alloc_bytes_remaining_ > 0 it is the distance from
\* alloc_ptr_ to the end of the block last appended to blocks_, also after a
\* large request was served from a block of its own.
C21_RemainingEndsLastAppendedBlock ==
  alloc_bytes_remaining_ > 0 =>
    /\ blocks_ # <<>>
    /\ alloc_ptr_ + alloc_bytes_remaining_ = BlockEnd(blocks_[Len(blocks_)])

\* C21, amended: when alloc_bytes_remaining_ > 0 it is the distance from
\* alloc_ptr_ to the end of the most recently appended block that is not a
\* block dedicated to one large request; alloc_ptr_ lies inside that block,
\* which has kBlockSize bytes.
C21_RemainingEndsLastSharedBlock ==
  alloc_bytes_remaining_ > 0 =>
    /\ SharedBlocks # {}
    /\ LET b == blocks_[Largest(SharedBlocks)] IN
         /\ b.size = kBlockSize
         /\ b.base < alloc_ptr_
         /\ alloc_ptr_ + alloc_bytes_remaining_ = BlockEnd(b)

\* Bytes remain in a block that is followed in blocks_ by a block dedicated
\* to a large request.
C21_Witness ==
  /\ alloc_bytes_remaining_ > 0
  /\ Len(blocks_) >= 2
  /\ DedicatedBlock(blocks_[Len(blocks_)])
  /\ Largest(SharedBlocks) < Len(blocks_)
  /\ alloc_ptr_ + alloc_bytes_remaining_ = BlockEnd(blocks_[Largest(SharedBlocks)])

\* The last call abandoned the current block: it appended a block and moved
\* alloc_ptr_ into it.
SwitchedBlock ==
  /\ a_last.op # "none"
  /\ Len(blocks_) = Len(a_last.before.blocks_) + 1
  /\ alloc_ptr_ # a_last.before.alloc_ptr_

\* The bytes of the abandoned block that no call had taken.
Stranded == a_last.before.alloc_bytes_remaining_

\* C22: whenever Allocate or AllocateAligned moves alloc_ptr_ to a new block,
\* that block has kBlockSize bytes and at most kBlockSize / 4 unused bytes of
\* the block left behind are stranded, for AllocateAligned too, whose request
\* needs its bytes and the padding.
C22_StrandedAtMostQuarterBlock ==
  SwitchedBlock =>
    /\ blocks_[Len(blocks_)].size = kBlockSize
    /\ alloc_ptr_ = blocks_[Len(blocks_)].base + a_last.bytes
    /\ Stranded <= kBlockSize \div 4

\* AllocateAligned abandoned a block in which its bytes would have fitted
\* without the padding, stranding one byte less than kBlockSize / 4.
C22_Witness ==
  /\ SwitchedBlock
  /\ a_last.op = "AllocateAligned"
  /\ a_last.before.alloc_ptr_ % kAlign # 0
  /\ a_last.bytes <= Stranded
  /\ Stranded = kBlockSize \div 4 - 1

\* ------------------------------------------------ claims on readers' loads
\* Node x has its key and its pointers of levels 0..level written, and was
\* allocated with more than `level` levels.
WrittenUpTo(x, level) ==
  /\ level < nheight[x]
  /\ x # head_ => key[x] # 0
  /\ \A l \in 0..level : next_[x][l] # Unwritten

\* C23: at every interleaving of the steps of a search with the steps of the
\* writer's Insert, the reader never loads a pointer that was not written:
\* the word it is about to load, x->Next(level), belongs to a level below the
\* height of x and is written, as are the words of x at all lower levels, to
\* which the reader may descend on x; every node reachable at a level has its
\* pointers written at that level and below (above max_height_ - 1 no node is
\* reachable: head_ points to nullptr there); and the node a search returned
\* has its level-0 pointer written, which Iterator::Next loads.
C23_ReaderLoadsOnlyWrittenPointers ==
  /\ ~s_ub
  /\ s_pc = "find" => WrittenUpTo(s_x, s_level)
  /\ (s_pc = "done" /\ s_node # nullptr) =>
       s_node \in Nodes /\ WrittenUpTo(s_node, 0)
  /\ \A level \in 0..(max_height_ - 1) :
       \A x \in ReachableAt(level) : WrittenUpTo(x, level)
  /\ \A level \in max_height_..(kMaxHeight - 1) : next_[head_][level] = nullptr

\* The reader is about to load the level-0 pointer of the node the writer is
\* inserting, whose level-1 pointer is not written yet.
C23_Witness ==
  /\ s_pc = "find"
  /\ s_x = w_x
  /\ s_x \in Nodes
  /\ s_level = 0
  /\ w_pc = "init"
  /\ w_i = 1
  /\ w_height = 2
  /\ next_[w_x][1] = Unwritten
  /\ ~s_ub

\* The key the scan stands on; past every key once the iterator is invalid.
ScanPosition ==
  IF r_node[ScanReader] \in Nodes THEN key[r_node[ScanReader]] ELSE MaxKeys + 1

\* C24: a scan by SeekToFirst and Next beside the writer reads every key
\* whose Insert had returned when the scan began: at each step it has read
\* all such keys below the key it stands on, and all of them once the
\* iterator is invalid; the other keys it reads are keys given to the writer.
C24_ScanSeesKeysPresentAtStart ==
  r_pc[ScanReader] = "scan" =>
    /\ r_node[ScanReader] \in Nodes \cup {nullptr}
    /\ \A k \in scan_base :
         k < ScanPosition => k \in SetOf(r_seen[ScanReader])
    /\ ScanEnded(ScanReader) => scan_base \subseteq SetOf(r_seen[ScanReader])
    /\ SetOf(r_seen[ScanReader]) \subseteq inserted

\* A scan has ended that began with a key present, read a key inserted after
\* it began, and missed another key whose Insert returned meanwhile.
C24_Witness ==
  /\ ScanEnded(ScanReader)
  /\ scan_base # {}
  /\ SetOf(r_seen[ScanReader]) \ scan_base # {}
  /\ w_done \ SetOf(r_seen[ScanReader]) # {}

\* ------------------------------------------------------ termination claim
\* The reader is inside FindGreaterOrEqual, FindLessThan or FindLast.
Searching == s_pc \in {"find", "findlt", "findlast"}

\* The writer is inside Insert.
Inserting == w_pc # "idle"

\* C25: with every thread that is inside a call scheduled again and again,
\* every search the reader begins returns, also while the writer runs its
\* Inserts, and every Insert the writer begins returns; neither thread ever
\* waits for the other: inside a call, its next step can always be taken.
C25_SearchesAndInsertsTerminate ==
  /\ Searching ~> (s_pc = "done")
  /\ Inserting ~> (w_pc = "idle")
  /\ [](Inserting => ENABLED <<WriterStep>>_vars)
  /\ [](Searching => ENABLED <<ReaderStep>>_vars)

\* A search has returned the node that the writer is still linking (its level
\* 1 is not published yet), after an earlier Insert returned: the search ran
\* to its end beside the Insert in progress.
C25_Witness ==
  /\ s_pc = "done"
  /\ ~s_ub
  /\ s_node \in Nodes
  /\ s_node = w_x
  /\ w_pc = "publish"
  /\ w_i = 1
  /\ w_height = 2
  /\ w_done # {}

=============================================================================
